---- MODULE Spec2Model ----
(***************************************************************************)
(* A model of the notebook RNN_LSTM.ipynb: sentiment classification of the *)
(* IMDB reviews with three Keras models.  The state is the notebook's      *)
(* kernel namespace (X_train, X_test, the four models, texts,              *)
(* padded_texts), the printed output, and the position of the run in the   *)
(* notebook's statements.  The library calls (imdb.load_data,              *)
(* sequence.pad_sequences, Sequential.add/compile/fit/evaluate/predict)    *)
(* are modelled by what they do with the arguments and defaults the        *)
(* notebook passes.                                                        *)
(***************************************************************************)
EXTENDS Integers, Sequences, FiniteSets, TLC

VARIABLES
    pc,            \* index in Program of the next statement to execute
    err,           \* "none", or the exception that ended the run
    raw,           \* the dataset files: word ranks of the reviews, by row
    X_train,       \* training reviews, row index -> sequence of tokens
    X_test,        \* test reviews, row index -> sequence of tokens
    layers,        \* model name -> its stack of layers
    compiled,      \* model name -> compile() has been called
    weights,       \* model name -> number of gradient updates applied
    fit,           \* the fit call in progress (m = "none" when there is none)
    fitlog,        \* model name -> one record per completed epoch
    texts,         \* the tuple (text_bad, text_good)
    texts_idx,     \* the X_train row indices texts was assembled from
    padded_texts,  \* pad_sequences(texts)
    decode_args,   \* the review_index of every decode call so far, in order
    out,           \* what the notebook has printed / returned, in order
    trace          \* the statements completed so far, in order

vars == <<pc, err, raw, X_train, X_test, layers, compiled, weights, fit,
          fitlog, texts, texts_idx, padded_texts, decode_args, out, trace>>

(***************************************************************************)
(* Parameters cell.                                                        *)
(***************************************************************************)
VOCABULARY_SIZE == 10000

\* 500 in the notebook; the model runs with a short review length so that
\* every review of every length around it can be enumerated.
MAX_REVIEW_LENGTH == 3

EMBEDDING_DIM == 100

EPOCHS == 2

BATCH_SIZE == 128

\* The IMDB split sizes: 25000 training and 25000 test reviews
\* (the epoch log shows 196 = ceil(25000 / 128) steps).
NUM_TRAIN == 25000

\* Number of words in imdb.get_word_index(): ranks 1 .. INDEX_WORDS.
INDEX_WORDS == 88584

\* imdb.load_data defaults: start_char=1, oov_char=2, index_from=3.
START_CHAR == 1
OOV_CHAR == 2
INDEX_FROM == 3

\* How many tokens longer than MAX_REVIEW_LENGTH an enumerated review gets.
MaxExtra == 2

\* How many decode calls a run of the decode harness makes.
MaxCalls == 2

Min(a, b) == IF a < b THEN a ELSE b

(***************************************************************************)
(* The rows of X_train the notebook reads by index (decode(7337),          *)
(* decode(449), X_train[7737], X_train[449]); the other rows of the 25000  *)
(* are not materialised.  X_test is only ever used as a whole.             *)
(***************************************************************************)
TrainRows == {449, 7337, 7737}
TestRows == {0}

Models == {"model_fnn", "model_rnn", "model_lstm", "model"}

(***************************************************************************)
(* Dataset files.  A review is stored as the frequency ranks of its words. *)
(* RankCycle holds a frequent word, the last rank inside the vocabulary    *)
(* cutoff (9996 + 3 = 9999) and the first one outside it.                  *)
(***************************************************************************)
RankCycle == <<11, VOCABULARY_SIZE - INDEX_FROM - 1, VOCABULARY_SIZE - INDEX_FROM>>

RanksOfLen(n) == [i \in 1..n |-> RankCycle[((i - 1) % 3) + 1]]

\* Reviews that load (with the start character) to MAX_REVIEW_LENGTH - 1,
\* MAX_REVIEW_LENGTH and MAX_REVIEW_LENGTH + MaxExtra tokens.
SampleReviews ==
    { RanksOfLen(MAX_REVIEW_LENGTH - 2),
      RanksOfLen(MAX_REVIEW_LENGTH - 1),
      RanksOfLen(MAX_REVIEW_LENGTH + MaxExtra - 1) }

RawDatasets ==
    [train : [TrainRows -> SampleReviews], test : [TestRows -> SampleReviews]]

(***************************************************************************)
(* imdb.load_data(num_words): prepend start_char, shift every rank by      *)
(* index_from, then replace every token >= num_words by oov_char.          *)
(***************************************************************************)
\* Mutant: num_words is ignored, no token is replaced by oov_char
load_review_no_cutoff(x, num_words) ==
    <<START_CHAR>> \o [i \in 1..Len(x) |-> x[i] + INDEX_FROM]

load_review(x, num_words) ==
    LET shifted == <<START_CHAR>> \o [i \in 1..Len(x) |-> x[i] + INDEX_FROM]
    IN  [i \in 1..Len(shifted) |->
            IF shifted[i] < num_words THEN shifted[i] ELSE OOV_CHAR]

load_data(files, num_words) ==
    [train |-> [r \in DOMAIN files.train |-> load_review(files.train[r], num_words)],
     test  |-> [r \in DOMAIN files.test |-> load_review(files.test[r], num_words)]]

(***************************************************************************)
(* sequence.pad_sequences(seqs, maxlen, value) with the defaults           *)
(* padding='pre', truncating='pre': keep the last maxlen tokens of a       *)
(* longer sequence, and put value in front of a shorter one.               *)
(***************************************************************************)
\* Mutant: a longer sequence is not truncated.
pad_one_untruncated(s, maxlen, value) ==
    LET k == IF Len(s) < maxlen THEN maxlen - Len(s) ELSE 0
    IN  [i \in 1..(k + Len(s)) |-> IF i <= k THEN value ELSE s[i - k]]

\* Mutant: padding='post', the sentinel goes behind the tokens.
pad_one_post(s, maxlen, value) ==
    LET n     == Len(s)
        trunc == IF n > maxlen THEN SubSeq(s, n - maxlen + 1, n) ELSE s
    IN  [i \in 1..maxlen |-> IF i <= Len(trunc) THEN trunc[i] ELSE value]

\* Mutant: truncating='post', a longer sequence keeps its first tokens.
pad_one_keep_front(s, maxlen, value) ==
    LET n     == Len(s)
        trunc == IF n > maxlen THEN SubSeq(s, 1, maxlen) ELSE s
        k     == maxlen - Len(trunc)
    IN  [i \in 1..maxlen |-> IF i <= k THEN value ELSE trunc[i - k]]

\* Mutant: the number of sentinels is one too many, the last token is lost.
pad_one_shifted(s, maxlen, value) ==
    LET n     == Len(s)
        trunc == IF n > maxlen THEN SubSeq(s, n - maxlen + 1, n) ELSE s
        k     == maxlen - Len(trunc) + 1
    IN  [i \in 1..maxlen |-> IF i <= k THEN value ELSE trunc[i - k]]

pad_one(s, maxlen, value) ==
    LET n     == Len(s)
        trunc == IF n > maxlen THEN SubSeq(s, n - maxlen + 1, n) ELSE s
        k     == maxlen - Len(trunc)
    IN  [i \in 1..maxlen |-> IF i <= k THEN value ELSE trunc[i - k]]

pad_sequences(seqs, maxlen, value) ==
    [r \in DOMAIN seqs |-> pad_one(seqs[r], maxlen, value)]

(***************************************************************************)
(* Layers, as the constructor calls of the notebook describe them.         *)
(* A Dense layer built without an activation argument is linear.           *)
(***************************************************************************)
Layer(type, input_dim, units, activation) ==
    [type |-> type, input_dim |-> input_dim, units |-> units,
     activation |-> activation]

Embedding(input_dim, output_dim) == Layer("Embedding", input_dim, output_dim, "linear")
Flatten == Layer("Flatten", 0, 0, "linear")
\* Mutant: the activation argument is dropped
DenseLinear(units, activation) == Layer("Dense", 0, units, "linear")

Dense(units, activation) == Layer("Dense", 0, units, activation)
SimpleRNN(units) == Layer("SimpleRNN", 0, units, "tanh")
LSTM(units) == Layer("LSTM", 0, units, "tanh")
Bidirectional(layer) == Layer("Bidirectional", 0, 2 * layer.units, layer.activation)

(***************************************************************************)
(* The notebook's statements, cell by cell, in top-to-bottom order.        *)
(* m is the model (or variable) the statement is about, arg its argument.  *)
(***************************************************************************)
S(op, m, arg, line) == [op |-> op, m |-> m, arg |-> arg, line |-> line]

CellLoad == << S("load", "-", VOCABULARY_SIZE, 142) >>

CellPad ==
    << S("pad", "X_train", MAX_REVIEW_LENGTH, 176),
       S("pad", "X_test", MAX_REVIEW_LENGTH, 177) >>

CellFnnBuild ==
    << S("new", "model_fnn", <<>>, 237),
       S("add", "model_fnn", Embedding(VOCABULARY_SIZE, EMBEDDING_DIM), 240),
       S("add", "model_fnn", Flatten, 243),
       S("add", "model_fnn", Dense(250, "relu"), 246),
       S("add", "model_fnn", Dense(1, "sigmoid"), 249),
       S("compile", "model_fnn", 0, 252),
       S("summary", "model_fnn", 0, 253) >>

CellFnnFit ==
    << S("fit", "model_fnn", 0, 286),
       S("evaluate", "model_fnn", 0, 289) >>

CellRnnBuild ==
    << S("new", "model_rnn", <<>>, 347),
       S("add", "model_rnn", Embedding(VOCABULARY_SIZE, EMBEDDING_DIM), 350),
       S("add", "model_rnn", SimpleRNN(100), 353),
       S("add", "model_rnn", Dense(1, "sigmoid"), 356),
       S("compile", "model_rnn", 0, 359),
       S("summary", "model_rnn", 0, 360) >>

CellRnnFit ==
    << S("fit", "model_rnn", 0, 395),
       S("evaluate", "model_rnn", 0, 398) >>

CellLstm ==
    << S("new", "model_lstm", <<>>, 475),
       S("add", "model_lstm", Embedding(VOCABULARY_SIZE, EMBEDDING_DIM), 478),
       S("add", "model_lstm", LSTM(100), 481),
       S("add", "model_lstm", Dense(1, "sigmoid"), 483),
       S("compile", "model_lstm", 0, 485),
       S("summary", "model_lstm", 0, 486),
       S("fit", "model_lstm", 0, 488),
       S("evaluate", "model_lstm", 0, 491) >>

CellDecode ==
    << S("decode", "-", 7337, 556),
       S("decode", "-", 449, 561) >>

CellTexts ==
    << S("texts", "-", <<7737, 449>>, 570),
       S("pad_texts", "-", MAX_REVIEW_LENGTH, 573) >>

CellPredict ==
    << S("predict", "model_fnn", 0, 599),
       S("predict", "model_rnn", 0, 600),
       S("predict", "model_lstm", 0, 601) >>

CellAdvanced ==
    << S("new", "model",
         << Embedding(VOCABULARY_SIZE, 64),
            Bidirectional(LSTM(64)),
            Dense(64, "relu"),
            Dense(1, "linear") >>, 634) >>

\* Mutant: the first model is built and fitted above the padding cell
ProgramOutOfOrder ==
    CellLoad \o CellFnnBuild \o CellFnnFit \o CellPad \o CellRnnBuild \o
    CellRnnFit \o CellLstm \o CellDecode \o CellTexts \o CellPredict \o
    CellAdvanced

Program ==
    CellLoad \o CellPad \o CellFnnBuild \o CellFnnFit \o CellRnnBuild \o
    CellRnnFit \o CellLstm \o CellDecode \o CellTexts \o CellPredict \o
    CellAdvanced

\* The position of the first statement with this op.
PcOf(op) == CHOOSE i \in 1..Len(Program) :
                /\ Program[i].op = op
                /\ \A j \in 1..(i - 1) : Program[j].op # op

Idle == [m |-> "none", epoch |-> 0, step |-> 0, lo |-> 0, hi |-> 0, covered |-> 0]

Event(op, m) == [op |-> op, m |-> m]

Printed(kind, m, arg, val) == [kind |-> kind, m |-> m, arg |-> arg, val |-> val]

(***************************************************************************)
(* The kernel before the first cell runs, for each content of the dataset  *)
(* files.                                                                  *)
(***************************************************************************)
Kernel(at, files, train, test, done) ==
    /\ pc = at
    /\ err = "none"
    /\ raw = files
    /\ X_train = train
    /\ X_test = test
    /\ layers = [m \in Models |-> <<>>]
    /\ compiled = [m \in Models |-> FALSE]
    /\ weights = [m \in Models |-> 0]
    /\ fit = Idle
    /\ fitlog = [m \in Models |-> <<>>]
    /\ texts = <<>>
    /\ texts_idx = <<>>
    /\ padded_texts = <<>>
    /\ decode_args = <<>>
    /\ out = <<>>
    /\ trace = done

Fresh(files) == Kernel(1, files, <<>>, <<>>, <<>>)

Init == \E files \in RawDatasets : Fresh(files)

\* A statement is ready to run: no error so far, no fit in progress.
Ready(op) ==
    /\ err = "none"
    /\ fit.m = "none"
    /\ pc <= Len(Program)
    /\ Program[pc].op = op

\* The statement at pc has completed.
Completed(op, m) ==
    /\ pc' = pc + 1
    /\ trace' = Append(trace, Event(op, m))

\* (X_train, y_train), (X_test, y_test) = imdb.load_data(num_words=VOCABULARY_SIZE)
ExecLoad ==
    /\ Ready("load")
    /\ LET d == load_data(raw, Program[pc].arg)
       IN  /\ X_train' = d.train
           /\ X_test' = d.test
    /\ Completed("load", "-")
    /\ UNCHANGED <<err, raw, layers, compiled, weights, fit, fitlog, texts,
                   texts_idx, padded_texts, out,
                   decode_args>>

\* X = sequence.pad_sequences(X, maxlen=MAX_REVIEW_LENGTH)
ExecPad ==
    /\ Ready("pad")
    /\ IF Program[pc].m = "X_train"
         THEN /\ X_train' = pad_sequences(X_train, Program[pc].arg, 0)
              /\ UNCHANGED X_test
         ELSE /\ X_test' = pad_sequences(X_test, Program[pc].arg, 0)
              /\ UNCHANGED X_train
    /\ Completed("pad", Program[pc].m)
    /\ UNCHANGED <<err, raw, layers, compiled, weights, fit, fitlog, texts,
                   texts_idx, padded_texts, out,
                   decode_args>>

\* model = Sequential() / Sequential([...]): a new model holding the given layers
ExecNew ==
    /\ Ready("new")
    /\ layers' = [layers EXCEPT ![Program[pc].m] = Program[pc].arg]
    /\ compiled' = [compiled EXCEPT ![Program[pc].m] = FALSE]
    /\ weights' = [weights EXCEPT ![Program[pc].m] = 0]
    /\ fitlog' = [fitlog EXCEPT ![Program[pc].m] = <<>>]
    /\ Completed("new", Program[pc].m)
    /\ UNCHANGED <<err, raw, X_train, X_test, fit, texts, texts_idx,
                   padded_texts, out,
                   decode_args>>

\* model.add(layer): the layer goes on top of the stack
ExecAdd ==
    /\ Ready("add")
    /\ layers' = [layers EXCEPT ![Program[pc].m] = Append(@, Program[pc].arg)]
    /\ Completed("add", Program[pc].m)
    /\ UNCHANGED <<err, raw, X_train, X_test, compiled, weights, fit, fitlog,
                   texts, texts_idx, padded_texts, out,
                   decode_args>>

\* model.compile(loss='binary_crossentropy', optimizer='adam', metrics=['accuracy'])
ExecCompile ==
    /\ Ready("compile")
    /\ compiled' = [compiled EXCEPT ![Program[pc].m] = TRUE]
    /\ Completed("compile", Program[pc].m)
    /\ UNCHANGED <<err, raw, X_train, X_test, layers, weights, fit, fitlog,
                   texts, texts_idx, padded_texts, out,
                   decode_args>>

\* print(model.summary())
ExecSummary ==
    /\ Ready("summary")
    /\ out' = Append(out, Printed("summary", Program[pc].m, 0, layers[Program[pc].m]))
    /\ Completed("summary", Program[pc].m)
    /\ UNCHANGED <<err, raw, X_train, X_test, layers, compiled, weights, fit,
                   fitlog, texts, texts_idx, padded_texts,
                   decode_args>>

(***************************************************************************)
(* model.fit(X_train, y_train, validation_data=(X_test, y_test),           *)
(*           epochs=EPOCHS, batch_size=BATCH_SIZE)                         *)
(* Each epoch walks the (shuffled) order of the NUM_TRAIN samples in       *)
(* slices of batch_size positions; the last slice is clipped at the end.   *)
(* Every slice is one gradient update.  An epoch ends with a validation    *)
(* pass over X_test that is logged as val_accuracy.                        *)
(***************************************************************************)
\* Mutant: the last, partial batch is dropped
StepsPerEpochFloor(n, batch_size) == n \div batch_size

StepsPerEpoch(n, batch_size) == (n + batch_size - 1) \div batch_size

FitBegin ==
    /\ Ready("fit")
    /\ fit' = [Idle EXCEPT !.m = Program[pc].m, !.epoch = 1]
    /\ fitlog' = [fitlog EXCEPT ![Program[pc].m] = <<>>]
    /\ trace' = Append(trace, Event("fit_begin", Program[pc].m))
    /\ UNCHANGED <<pc, err, raw, X_train, X_test, layers, compiled, weights,
                   texts, texts_idx, padded_texts, out,
                   decode_args>>

FitBatch ==
    /\ err = "none"
    /\ fit.m # "none"
    /\ fit.step < StepsPerEpoch(NUM_TRAIN, BATCH_SIZE)
    /\ LET lo == fit.step * BATCH_SIZE
           hi == Min((fit.step + 1) * BATCH_SIZE, NUM_TRAIN)
       IN  fit' = [fit EXCEPT !.step = @ + 1, !.lo = lo, !.hi = hi,
                              !.covered = @ + (hi - lo)]
    /\ weights' = [weights EXCEPT ![fit.m] = @ + 1]
    /\ UNCHANGED <<pc, err, raw, X_train, X_test, layers, compiled, fitlog,
                   texts, texts_idx, padded_texts, out, trace,
                   decode_args>>

FitEpochEnd ==
    /\ err = "none"
    /\ fit.m # "none"
    /\ fit.step = StepsPerEpoch(NUM_TRAIN, BATCH_SIZE)
    /\ out' = Append(out, Printed("val_accuracy", fit.m, fit.epoch,
                                  [w |-> weights[fit.m], x |-> X_test]))
    /\ fitlog' = [fitlog EXCEPT ![fit.m] =
                     Append(@, [batches |-> fit.step, samples |-> fit.covered])]
    /\ IF fit.epoch < EPOCHS
         THEN /\ fit' = [Idle EXCEPT !.m = fit.m, !.epoch = fit.epoch + 1]
              /\ UNCHANGED <<pc, trace>>
         ELSE /\ fit' = Idle
              /\ Completed("fit", fit.m)
    /\ UNCHANGED <<err, raw, X_train, X_test, layers, compiled, weights,
                   texts, texts_idx, padded_texts,
                   decode_args>>

\* Mutant: evaluate runs a training step on the evaluated model
ExecEvaluateTrains ==
    /\ Ready("evaluate")
    /\ out' = Append(out, Printed("Accuracy", Program[pc].m, 0,
                                  [w |-> weights[Program[pc].m], x |-> X_test]))
    /\ weights' = [weights EXCEPT ![Program[pc].m] = @ + 1]
    /\ Completed("evaluate", Program[pc].m)
    /\ UNCHANGED <<err, raw, X_train, X_test, layers, compiled, fit,
                   fitlog, texts, texts_idx, padded_texts, decode_args>>

\* Mutant: the model is evaluated on the training set
ExecEvaluateOnTrain ==
    /\ Ready("evaluate")
    /\ out' = Append(out, Printed("Accuracy", Program[pc].m, 0,
                                  [w |-> weights[Program[pc].m], x |-> X_train]))
    /\ Completed("evaluate", Program[pc].m)
    /\ UNCHANGED <<err, raw, X_train, X_test, layers, compiled, weights, fit,
                   fitlog, texts, texts_idx, padded_texts, decode_args>>

\* scores = model.evaluate(X_test, y_test, verbose=0); print("Accuracy: ...")
ExecEvaluate ==
    /\ Ready("evaluate")
    /\ out' = Append(out, Printed("Accuracy", Program[pc].m, 0,
                                  [w |-> weights[Program[pc].m], x |-> X_test]))
    /\ Completed("evaluate", Program[pc].m)
    /\ UNCHANGED <<err, raw, X_train, X_test, layers, compiled, weights, fit,
                   fitlog, texts, texts_idx, padded_texts,
                   decode_args>>

(***************************************************************************)
(* decode(review_index).  index is the word -> rank table of the dataset,  *)
(* reverse_index its inverse; reverse_index.get(k, "#") is the word of     *)
(* rank k, or "#" when no word has that rank.  X_train is a numpy array    *)
(* of NUM_TRAIN rows after padding: X_train[i] is row i for                *)
(* 0 <= i < NUM_TRAIN, row NUM_TRAIN + i for -NUM_TRAIN <= i < 0, and      *)
(* raises IndexError otherwise.                                            *)
(***************************************************************************)
Word(rank) == "w" \o ToString(rank)

reverse_index_get(k, default) ==
    IF k \in 1..INDEX_WORDS THEN Word(k) ELSE default

InRange(i, n) == -n <= i /\ i < n

\* Mutant: the index_from shift is off by one
decoded_off_by_one(review) ==
    [k \in 1..Len(review) |-> reverse_index_get(review[k] - INDEX_FROM + 1, "#")]

decoded(review) ==
    [k \in 1..Len(review) |-> reverse_index_get(review[k] - INDEX_FROM, "#")]

\* Mutant: decode swallows the IndexError and prints nothing
DecodeCatches(review_index) ==
    /\ decode_args' = Append(decode_args, review_index)
    /\ IF InRange(review_index, NUM_TRAIN)
         THEN /\ (review_index % NUM_TRAIN) \in DOMAIN X_train
              /\ out' = Append(out, Printed("decode", "-", review_index,
                                    decoded(X_train[review_index % NUM_TRAIN])))
              /\ UNCHANGED err
         ELSE UNCHANGED <<err, out>>

Decode(review_index) ==
    /\ decode_args' = Append(decode_args, review_index)
    /\ IF InRange(review_index, NUM_TRAIN)
         THEN /\ (review_index % NUM_TRAIN) \in DOMAIN X_train
              /\ out' = Append(out, Printed("decode", "-", review_index,
                                    decoded(X_train[review_index % NUM_TRAIN])))
              /\ UNCHANGED err
         ELSE /\ err' = "IndexError"
              /\ UNCHANGED out

ExecDecode ==
    /\ Ready("decode")
    /\ Decode(Program[pc].arg)
    /\ IF err' = "none"
         THEN Completed("decode", "-")
         ELSE UNCHANGED <<pc, trace>>
    /\ UNCHANGED <<raw, X_train, X_test, layers, compiled, weights, fit,
                   fitlog, texts, texts_idx, padded_texts>>

\* text_bad = X_train[7737]; text_good = X_train[449]; texts = (text_bad, text_good)
ExecTexts ==
    /\ Ready("texts")
    /\ \A k \in 1..Len(Program[pc].arg) : Program[pc].arg[k] \in DOMAIN X_train
    /\ texts' = [k \in 1..Len(Program[pc].arg) |-> X_train[Program[pc].arg[k]]]
    /\ texts_idx' = Program[pc].arg
    /\ Completed("texts", "-")
    /\ UNCHANGED <<err, raw, X_train, X_test, layers, compiled, weights, fit,
                   fitlog, padded_texts, out,
                   decode_args>>

\* padded_texts = sequence.pad_sequences(texts, maxlen=MAX_REVIEW_LENGTH, value = 0.0)
ExecPadTexts ==
    /\ Ready("pad_texts")
    /\ padded_texts' = pad_sequences(texts, Program[pc].arg, 0)
    /\ Completed("pad_texts", "-")
    /\ UNCHANGED <<err, raw, X_train, X_test, layers, compiled, weights, fit,
                   fitlog, texts, texts_idx, out,
                   decode_args>>

\* predictions = model.predict(padded_texts)
ExecPredict ==
    /\ Ready("predict")
    /\ out' = Append(out, Printed("predict", Program[pc].m, texts_idx,
                                  [w |-> weights[Program[pc].m], x |-> padded_texts]))
    /\ Completed("predict", Program[pc].m)
    /\ UNCHANGED <<err, raw, X_train, X_test, layers, compiled, weights, fit,
                   fitlog, texts, texts_idx, padded_texts,
                   decode_args>>

Next ==
    \/ ExecLoad
    \/ ExecPad
    \/ ExecNew
    \/ ExecAdd
    \/ ExecCompile
    \/ ExecSummary
    \/ FitBegin
    \/ FitBatch
    \/ FitEpochEnd
    \/ ExecEvaluate
    \/ ExecDecode
    \/ ExecTexts
    \/ ExecPadTexts
    \/ ExecPredict

\* A top-to-bottom run of the notebook.
Spec == Init /\ [][Next]_vars

(***************************************************************************)
(* The load and padding cells on every small dataset: one training and one *)
(* test review, of every length from 1 to MAX_REVIEW_LENGTH + MaxExtra     *)
(* tokens, over a word inside and a word outside the vocabulary cutoff.    *)
(***************************************************************************)
PadRanks == {11, VOCABULARY_SIZE - INDEX_FROM}

PadReviews ==
    UNION { [1..n -> PadRanks] : n \in 0..(MAX_REVIEW_LENGTH + MaxExtra - 1) }

PadDatasets == [train : [{449} -> PadReviews], test : [TestRows -> PadReviews]]

InitPad == \E files \in PadDatasets : Fresh(files)

NextPad == ExecLoad \/ ExecPad

SpecPad == InitPad /\ [][NextPad]_vars

(***************************************************************************)
(* decode called with any index, on the kernel as the padding cell leaves  *)
(* it: the three materialised rows, one of them through a negative index,  *)
(* and the first index past either end of the array.                       *)
(***************************************************************************)
DecodeArgs == TrainRows \cup {449 - NUM_TRAIN, NUM_TRAIN, -NUM_TRAIN - 1}

InitDecode ==
    \E files \in RawDatasets :
       LET d == load_data(files, VOCABULARY_SIZE)
       IN  Kernel(Len(CellLoad \o CellPad) + 1, files,
                  pad_sequences(d.train, MAX_REVIEW_LENGTH, 0),
                  pad_sequences(d.test, MAX_REVIEW_LENGTH, 0),
                  << Event("load", "-"), Event("pad", "X_train"),
                     Event("pad", "X_test") >>)

CallDecode ==
    \E review_index \in DecodeArgs :
       /\ err = "none"
       /\ Len(decode_args) < MaxCalls
       /\ Decode(review_index)
       /\ UNCHANGED <<pc, raw, X_train, X_test, layers, compiled, weights, fit,
                      fitlog, texts, texts_idx, padded_texts, trace>>

NextDecode == CallDecode

SpecDecode == InitDecode /\ [][NextDecode]_vars

(***************************************************************************)
(* Properties.                                                             *)
(***************************************************************************)
Occurs(op, m) == \E i \in 1..Len(trace) : trace[i] = Event(op, m)

Pos(op, m) == CHOOSE i \in 1..Len(trace) : trace[i] = Event(op, m)

Zeros(n) == [i \in 1..n |-> 0]

\* The reviews as load_data returned them, before the padding cell ran.
Loaded == load_data(raw, VOCABULARY_SIZE)

\* C1: once a set has gone through the padding statement, every review of
\* it has exactly MAX_REVIEW_LENGTH tokens, whatever its length was before,
\* and this stays so for the rest of the run.
C1_PaddedLength ==
    /\ Occurs("pad", "X_train") =>
          \A r \in DOMAIN X_train : Len(X_train[r]) = MAX_REVIEW_LENGTH
    /\ Occurs("pad", "X_test") =>
          \A r \in DOMAIN X_test : Len(X_test[r]) = MAX_REVIEW_LENGTH

\* Both sets are padded, and the training set held a shorter, an equal and a
\* longer review and the test set a longer one.
C1_Witness ==
    /\ Occurs("pad", "X_train") /\ Occurs("pad", "X_test")
    /\ \E a, b, c \in DOMAIN X_train :
          /\ Len(Loaded.train[a]) < MAX_REVIEW_LENGTH
          /\ Len(Loaded.train[b]) = MAX_REVIEW_LENGTH
          /\ Len(Loaded.train[c]) > MAX_REVIEW_LENGTH
    /\ \E r \in DOMAIN X_test : Len(Loaded.test[r]) > MAX_REVIEW_LENGTH

LeftPadded(before, after) ==
    LET n == Len(before)
    IN  n < MAX_REVIEW_LENGTH =>
          /\ Len(after) = MAX_REVIEW_LENGTH
          /\ \A i \in 1..(MAX_REVIEW_LENGTH - n) : after[i] = 0
          /\ \A i \in 1..n : after[MAX_REVIEW_LENGTH - n + i] = before[i]

\* C2: a review of n < MAX_REVIEW_LENGTH tokens comes out of padding with
\* MAX_REVIEW_LENGTH - n zeros in front, followed by its n tokens in order.
C2_LeftPadded ==
    /\ Occurs("pad", "X_train") =>
          \A r \in DOMAIN X_train : LeftPadded(Loaded.train[r], X_train[r])
    /\ Occurs("pad", "X_test") =>
          \A r \in DOMAIN X_test : LeftPadded(Loaded.test[r], X_test[r])

\* A review two or more tokens short has been padded, in each set.
C2_Witness ==
    /\ Occurs("pad", "X_train") /\ Occurs("pad", "X_test")
    /\ \E r \in DOMAIN X_train :
          /\ Len(Loaded.train[r]) <= MAX_REVIEW_LENGTH - 2
          /\ X_train[r] = Zeros(MAX_REVIEW_LENGTH - Len(Loaded.train[r]))
                             \o Loaded.train[r]
    /\ \E r \in DOMAIN X_test : Len(Loaded.test[r]) = MAX_REVIEW_LENGTH - 1

TruncatedFront(before, after) ==
    LET n == Len(before)
    IN  n > MAX_REVIEW_LENGTH =>
          /\ after = SubSeq(before, n - MAX_REVIEW_LENGTH + 1, n)
          /\ \A i \in 1..Len(after) : after[i] # 0

\* C3: a review of n > MAX_REVIEW_LENGTH tokens comes out of padding as its
\* last MAX_REVIEW_LENGTH tokens, in order, with no sentinel among them.
C3_TruncatedFront ==
    /\ Occurs("pad", "X_train") =>
          \A r \in DOMAIN X_train : TruncatedFront(Loaded.train[r], X_train[r])
    /\ Occurs("pad", "X_test") =>
          \A r \in DOMAIN X_test : TruncatedFront(Loaded.test[r], X_test[r])

\* A review two tokens too long, whose first and last kept tokens differ,
\* has been truncated, and so has a test review one token too long.
C3_Witness ==
    /\ Occurs("pad", "X_train") /\ Occurs("pad", "X_test")
    /\ \E r \in DOMAIN X_train :
          /\ Len(Loaded.train[r]) >= MAX_REVIEW_LENGTH + 2
          /\ X_train[r][1] # X_train[r][MAX_REVIEW_LENGTH]
          /\ X_train[r][1] = Loaded.train[r][Len(Loaded.train[r]) - MAX_REVIEW_LENGTH + 1]
    /\ \E r \in DOMAIN X_test : Len(Loaded.test[r]) = MAX_REVIEW_LENGTH + 1

Fitted == {"model_fnn", "model_rnn", "model_lstm"}

\* If the second statement has completed, the first completed before it.
Before(op1, m1, op2, m2) ==
    Occurs(op2, m2) => (Occurs(op1, m1) /\ Pos(op1, m1) < Pos(op2, m2))

Once == {"load", "pad", "new", "compile", "fit_begin", "fit", "evaluate", "predict"}

\* C4: the run is linear.  The dataset is loaded before it is padded, both
\* sets are padded before any fit begins, each fitted model goes through
\* new, add..., compile, fit, evaluate, predict in that order, no other
\* statement runs while a fit is in progress, and none of these steps is
\* executed twice.
C4_LinearPipeline ==
    /\ Before("load", "-", "pad", "X_train")
    /\ Before("load", "-", "pad", "X_test")
    /\ \A m \in Fitted :
          /\ Before("pad", "X_train", "fit_begin", m)
          /\ Before("pad", "X_test", "fit_begin", m)
          /\ Before("new", m, "compile", m)
          /\ \A i \in 1..Len(trace) :
                trace[i] = Event("add", m) =>
                   /\ Occurs("new", m) /\ Pos("new", m) < i
                   /\ Occurs("compile", m) => i < Pos("compile", m)
          /\ Before("compile", m, "fit_begin", m)
          /\ Before("fit_begin", m, "fit", m)
          /\ Before("fit", m, "evaluate", m)
          /\ Before("evaluate", m, "predict", m)
    /\ fit.m # "none" =>
          /\ trace # <<>>
          /\ trace[Len(trace)] = Event("fit_begin", fit.m)
          /\ ~Occurs("fit", fit.m)
    /\ \A i, j \in 1..Len(trace) :
          (i < j /\ trace[i].op \in Once) => trace[i] # trace[j]

\* The run has reached the end of the notebook and every fitted model has
\* been through all of its steps.
C4_Witness ==
    /\ pc = Len(Program) + 1
    /\ err = "none"
    /\ \A m \in Fitted :
          \A op \in {"new", "add", "compile", "fit_begin", "fit", "evaluate", "predict"} :
             Occurs(op, m)

\* C5: every fit runs EPOCHS = 2 epochs and then returns; an epoch is 196
\* batches of at most BATCH_SIZE = 128 samples; every batch starts where
\* the batches before it ended, and the batches of an epoch add up to the
\* 25000 training reviews, so each review is in exactly one batch.
C5_FitEpochsAndBatches ==
    /\ fit.m # "none" =>
          /\ fit.epoch \in 1..2
          /\ fit.step <= 196
          /\ Len(fitlog[fit.m]) = fit.epoch - 1
          /\ fit.step = 0 => fit.covered = 0
          /\ fit.step > 0 =>
                /\ fit.hi - fit.lo \in 1..128
                /\ fit.lo = fit.covered - (fit.hi - fit.lo)
                /\ fit.hi = fit.covered
                /\ fit.hi <= 25000
    /\ \A m \in Models :
          /\ \A e \in 1..Len(fitlog[m]) :
                /\ fitlog[m][e].batches = 196
                /\ fitlog[m][e].samples = 25000
          /\ Occurs("fit", m) => (Len(fitlog[m]) = 2 /\ fit.m # m)
          /\ (Len(fitlog[m]) = 2 /\ m \in Fitted) => Occurs("fit", m)

\* All three fit calls have returned.
C5_Witness ==
    /\ \A m \in Fitted : Occurs("fit", m) /\ Len(fitlog[m]) = EPOCHS
    /\ fit = Idle

\* The construction of m has finished: it has been created and the next
\* statement does not add a layer to it.
Constructed(m) ==
    /\ Occurs("new", m)
    /\ ~(pc <= Len(Program) /\ Program[pc].op = "add" /\ Program[pc].m = m)

EmbeddingFirst(m) ==
    /\ layers[m] # <<>>
    /\ layers[m][1].type = "Embedding"
    /\ layers[m][1].input_dim = VOCABULARY_SIZE

SingleUnitLast(m, activation) ==
    /\ layers[m] # <<>>
    /\ layers[m][Len(layers[m])].type = "Dense"
    /\ layers[m][Len(layers[m])].units = 1
    /\ layers[m][Len(layers[m])].activation = activation

\* C6 as stated: every constructed model, the final bidirectional-LSTM
\* model included, starts with an embedding over VOCABULARY_SIZE indices
\* and ends with a single-unit sigmoid output.
C6_AllSigmoid ==
    \A m \in Models :
       Constructed(m) => (EmbeddingFirst(m) /\ SingleUnitLast(m, "sigmoid"))

\* C6 (amended): every constructed model starts with an embedding over
\* VOCABULARY_SIZE indices and ends with a single-unit output, which is
\* sigmoid for model_fnn, model_rnn and model_lstm and has no activation
\* (linear) for the final bidirectional-LSTM model.
C6_SingleUnitOutput ==
    \A m \in Models :
       Constructed(m) =>
          /\ EmbeddingFirst(m)
          /\ SingleUnitLast(m, IF m = "model" THEN "linear" ELSE "sigmoid")

\* All four models have been constructed.
C6_Witness == \A m \in Models : Constructed(m) /\ Len(layers[m]) >= 3

\* What the decode calls have printed, one entry per call that returned.
DecodeOut == SelectSeq(out, LAMBDA e : e.kind = "decode")

OutOfRange(i) == i < -25000 \/ i >= 25000

NoEntry(token) == token - 3 \notin 1..INDEX_WORDS

\* The decode call number j failed: the run stopped there with an error
\* and the call printed nothing.
Failed(j) ==
    /\ err # "none"
    /\ j = Len(decode_args)
    /\ Len(DecodeOut) = j - 1

\* C7 as stated: a decode call that meets an out-of-range index, be it the
\* review_index or a token without an entry in the lookup table, fails
\* with an error and substitutes nothing.
C7_EveryMissFails ==
    \A j \in 1..Len(decode_args) :
       LET i == decode_args[j]
       IN  (\/ OutOfRange(i)
            \/ \E k \in 1..MAX_REVIEW_LENGTH : NoEntry(X_train[i % NUM_TRAIN][k]))
           => Failed(j)

\* C7 (amended): a decode call with an out-of-range review_index fails
\* with an error that ends the run, and prints nothing; no other call
\* fails, and a token without an entry in the lookup table is no failure:
\* the call returns with "#" in its place.
C7_IndexFailsTokenSubstituted ==
    /\ \A j \in 1..Len(decode_args) :
          LET i == decode_args[j]
          IN  IF OutOfRange(i)
                THEN Failed(j) /\ err = "IndexError"
                ELSE /\ j <= Len(DecodeOut)
                     /\ DecodeOut[j].arg = i
                     /\ \A k \in 1..MAX_REVIEW_LENGTH :
                           NoEntry(X_train[i % NUM_TRAIN][k])
                              => DecodeOut[j].val[k] = "#"
    /\ err # "none" =>
          (decode_args # <<>> /\ OutOfRange(decode_args[Len(decode_args)]))

\* A call on a review with a token that has no entry returned with "#",
\* and a later call with an out-of-range review_index failed.
C7_Witness ==
    /\ err = "IndexError"
    /\ Len(decode_args) = 2
    /\ Len(DecodeOut) = 1
    /\ \E k \in 1..MAX_REVIEW_LENGTH :
          /\ NoEntry(X_train[DecodeOut[1].arg % NUM_TRAIN][k])
          /\ DecodeOut[1].val[k] = "#"

\* C8: once the predictions are made, the reviews decoded are the reviews
\* predicted on: the indices passed to decode are the indices padded_texts
\* was assembled from, in the same order.
C8_DecodedArePredicted ==
    (\E m \in Fitted : Occurs("predict", m)) => decode_args = texts_idx

\* C9: decode prints one word per position of the padded review, in order:
\* token i is printed as the word of rank i - 3, and as "#" when there is
\* no such word, which is the case for the tokens 0, 1, 2 and 3.
C9_DecodeRendering ==
    /\ \A j \in 1..Len(DecodeOut) :
          LET review == X_train[DecodeOut[j].arg % NUM_TRAIN]
              text   == DecodeOut[j].val
          IN  /\ Len(text) = MAX_REVIEW_LENGTH
              /\ Len(review) = MAX_REVIEW_LENGTH
              /\ \A k \in 1..MAX_REVIEW_LENGTH :
                    /\ review[k] \in 0..3 => text[k] = "#"
                    /\ review[k] \in 4..(INDEX_WORDS + 3) =>
                          text[k] = Word(review[k] - 3) /\ text[k] # "#"
    /\ \A i \in 0..3 : reverse_index_get(i - 3, "#") = "#"
    /\ reverse_index_get(4 - 3, "#") = Word(1)

\* A review with padding, a reserved token and a word has been decoded.
C9_Witness ==
    \E j \in 1..Len(DecodeOut) :
       LET review == X_train[DecodeOut[j].arg % NUM_TRAIN]
       IN  \E a, b, c \in 1..MAX_REVIEW_LENGTH :
              /\ review[a] = 0
              /\ review[b] \in {1, 2}
              /\ review[c] >= 4
              /\ DecodeOut[j].val[c] = Word(review[c] - 3)

\* C10: a step changes the weights of a model only while a fit call on that
\* model is in progress (so not evaluate, predict, summary, decode, nor the
\* fit of another model), and no step changes the layers of a model whose
\* construction has finished.
C10_WeightsFrame ==
    [][\A m \in Models :
          /\ weights'[m] # weights[m] => (fit.m = m /\ weights'[m] = weights[m] + 1)
          /\ Constructed(m) => layers'[m] = layers[m]]_vars

\* Every model has been fitted, evaluated and predicted with, the weights
\* of each being those its own 2 * 196 batches left.
C10_Witness ==
    /\ \A m \in Fitted :
          /\ Occurs("evaluate", m) /\ Occurs("predict", m) /\ Occurs("summary", m)
          /\ weights[m] = EPOCHS * StepsPerEpoch(NUM_TRAIN, BATCH_SIZE)
    /\ Len(DecodeOut) = 2
    /\ Constructed("model") /\ weights["model"] = 0

\* Every token of every sequence of the batch is an index of an embedding
\* of input dimension VOCABULARY_SIZE.
ValidTokens(batch) ==
    \A r \in DOMAIN batch :
       \A k \in 1..Len(batch[r]) :
          0 <= batch[r][k] /\ batch[r][k] < VOCABULARY_SIZE

\* The sequences handed to a model so far: the validation pass of every
\* epoch, every evaluate and every predict.
ModelInputs ==
    { out[j].val.x : j \in { i \in 1..Len(out) :
                               out[i].kind \in {"val_accuracy", "Accuracy", "predict"} } }

\* C11: from the load cell on, through padding and the re-padding of the
\* prediction inputs, every token of X_train, X_test and padded_texts, and
\* so of every sequence passed to fit, evaluate or predict, is at least 0
\* and below VOCABULARY_SIZE, and VOCABULARY_SIZE is the input dimension of
\* the embedding every model starts with.
C11_TokensAreEmbeddingIndices ==
    /\ Occurs("load", "-") =>
          /\ ValidTokens(X_train)
          /\ ValidTokens(X_test)
          /\ ValidTokens(texts)
          /\ ValidTokens(padded_texts)
    /\ \A x \in ModelInputs : ValidTokens(x)
    /\ \A m \in Models :
          layers[m] # <<>> =>
             /\ layers[m][1].type = "Embedding"
             /\ layers[m][1].input_dim = 10000

\* The three models have been fitted, evaluated and predicted with on data
\* that holds the padding 0, the largest token 9999 and the token of a word
\* beyond the vocabulary cutoff.
C11_Witness ==
    /\ \A m \in Fitted : Occurs("fit", m) /\ Occurs("evaluate", m) /\ Occurs("predict", m)
    /\ \E r \in DOMAIN padded_texts :
          /\ \E k \in 1..Len(padded_texts[r]) : padded_texts[r][k] = 0
    /\ \E r \in DOMAIN padded_texts :
          /\ \E k \in 1..Len(padded_texts[r]) : padded_texts[r][k] = VOCABULARY_SIZE - 1
          /\ \E k \in 1..Len(padded_texts[r]) : padded_texts[r][k] = OOV_CHAR
    /\ \E r \in DOMAIN raw.train :
          \E k \in 1..Len(raw.train[r]) : raw.train[r][k] + INDEX_FROM >= VOCABULARY_SIZE
    /\ \E x \in ModelInputs : x = X_test
    /\ \E x \in ModelInputs : x = padded_texts

\* C12: padding is idempotent.  Once a set is padded, padding it again
\* with the same maxlen and sentinel returns it unchanged; so padded_texts
\* is texts, element for element, and its rows are the X_train rows texts
\* was assembled from.
C12_PaddingIdempotent ==
    /\ Occurs("pad", "X_train") =>
          pad_sequences(X_train, MAX_REVIEW_LENGTH, 0) = X_train
    /\ Occurs("pad", "X_test") =>
          pad_sequences(X_test, MAX_REVIEW_LENGTH, 0) = X_test
    /\ Occurs("pad_texts", "-") =>
          /\ padded_texts = texts
          /\ Len(padded_texts) = 2
          /\ Len(texts_idx) = 2
          /\ \A k \in 1..2 :
                /\ Len(padded_texts[k]) = MAX_REVIEW_LENGTH
                /\ \A i \in 1..MAX_REVIEW_LENGTH :
                      padded_texts[k][i] = X_train[texts_idx[k]][i]

\* padded_texts has been built from two different rows, one that was padded
\* with the sentinel and one that was truncated.
C12_Witness ==
    /\ Occurs("pad_texts", "-")
    /\ padded_texts[1] # padded_texts[2]
    /\ padded_texts[1][1] = 0
    /\ Len(Loaded.train[texts_idx[1]]) < MAX_REVIEW_LENGTH
    /\ Len(Loaded.train[texts_idx[2]]) > MAX_REVIEW_LENGTH
    /\ padded_texts[2][MAX_REVIEW_LENGTH] # 0

\* The positions in the output of the lines of this kind about model m.
Lines(kind, m) == { i \in 1..Len(out) : out[i].kind = kind /\ out[i].m = m }

\* C13: for each fitted model, the accuracy printed by evaluate is computed
\* from the same weights and on the same data as the validation accuracy
\* logged at the end of the last epoch of that model's fit, so the two are
\* equal.  (An accuracy is recorded as the weights and the input it is
\* computed from.)
C13_AccuracyIsLastValAccuracy ==
    \A m \in Fitted :
       Occurs("evaluate", m) =>
          /\ Cardinality(Lines("Accuracy", m)) = 1
          /\ \A i \in Lines("Accuracy", m) :
                \E j \in Lines("val_accuracy", m) :
                   /\ j < i
                   /\ out[j].arg = EPOCHS
                   /\ \A l \in Lines("val_accuracy", m) : l <= j
                   /\ out[i].val.w = out[j].val.w
                   /\ out[i].val.x = out[j].val.x
                   /\ out[i].val.x = X_test
                   /\ out[i].val.w = weights[m]

\* The three accuracies are printed, each after a fit whose last epoch left
\* other weights than its first.
C13_Witness ==
    \A m \in Fitted :
       /\ Occurs("evaluate", m)
       /\ \E i \in Lines("Accuracy", m) : out[i].val.w = 2 * 196
       /\ \E j \in Lines("val_accuracy", m) :
             out[j].arg = 1 /\ out[j].val.w = 196

====
